---- MODULE Spec2Model ----
(***************************************************************************)
(* AppStateStore (linera-sdk/src/views/system_api.rs): the key-value store *)
(* adapter that a Wasm application uses to reach the host's storage.       *)
(*                                                                         *)
(* Keys and values are byte sequences.  Every async fn of the adapter is a *)
(* cooperative task body: it runs without interruption up to its           *)
(* yield_once().await, where other tasks and the host may run, and then    *)
(* from the resumption to its return.                                      *)
(***************************************************************************)
EXTENDS Integers, Sequences, FiniteSets, TLC

VARIABLES
    store,      \* the host's key-value store: key -> Option<value>
    live,       \* the cooperative tasks that call the adapter
    pc,         \* per task: "idle", or "yielded" inside yield_once().await
    cur,        \* per task: the adapter call in flight
    promises,   \* per task: host promises created and not yet waited on
    prev,       \* history: the latest call returned, when it is a contains_key and the
                \* store has not changed since it was issued
    ret         \* the adapter call that has just returned, until its caller takes the result

vars == <<store, live, pc, cur, promises, prev, ret>>

----------------------------------------------------------------------------
(* Bounds of the model *)

MaxBatchLen == 2      \* operations per batch, single caller
ConcBatchLen == 1     \* operations per batch, two concurrent tasks
MaxKeys == 2          \* keys per read_multi_values_bytes list, single caller
ConcKeys == 1         \* keys per read_multi_values_bytes list, two concurrent tasks

----------------------------------------------------------------------------
(* Byte sequences, held as runs: <<b, n>> is the byte b repeated n >= 1   *)
(* times, and two adjacent runs never hold the same byte.                 *)

MAX_KEY_SIZE == 900

Run(b, n) == IF n = 0 THEN << >> ELSE << <<b, n>> >>

RECURSIVE ByteLen(_)
ByteLen(k) == IF k = << >> THEN 0 ELSE Head(k)[2] + ByteLen(Tail(k))

K1 == Run(1, 1)
KMax == Run(1, MAX_KEY_SIZE)
KBig == Run(1, MAX_KEY_SIZE + 1)

KeyPool == {K1, KMax, KBig}
PrefixPool == KeyPool \cup {<< >>}
VBig == Run(8, MAX_KEY_SIZE + 1)
ValuePool == {Run(7, 1), VBig}
BaseKeyPool == {<< >>, KBig}
Tasks == {"t1", "t2"}

None == << >>
Some(v) == <<v>>

SeqsUpTo(S, n) == UNION {[1..m -> S] : m \in 0..n}

RECURSIVE IsPrefix(_, _)
IsPrefix(p, k) ==
    IF p = << >> THEN TRUE
    ELSE IF k = << >> THEN FALSE
    ELSE IF Head(p)[1] # Head(k)[1] THEN FALSE
    ELSE IF Tail(p) = << >> THEN Head(p)[2] <= Head(k)[2]
    ELSE Head(p)[2] = Head(k)[2] /\ IsPrefix(Tail(p), Tail(k))

\* lexicographic order on byte sequences
RECURSIVE BytesLess(_, _)
BytesLess(a, b) ==
    IF b = << >> THEN FALSE
    ELSE IF a = << >> THEN TRUE
    ELSE IF Head(a)[1] # Head(b)[1] THEN Head(a)[1] < Head(b)[1]
    ELSE IF Head(a)[2] = Head(b)[2] THEN BytesLess(Tail(a), Tail(b))
    ELSE IF Head(a)[2] < Head(b)[2]
         THEN Tail(a) = << >> \/ Head(Tail(a))[1] < Head(b)[1]
    ELSE Tail(b) # << >> /\ Head(a)[1] < Head(Tail(b))[1]

RECURSIVE SortKeys(_)
SortKeys(S) ==
    IF S = {} THEN << >>
    ELSE LET k == CHOOSE x \in S : \A y \in S \ {x} : BytesLess(x, y)
         IN  <<k>> \o SortKeys(S \ {k})

----------------------------------------------------------------------------
(* linera_views::batch *)

Put(k, v) == [type |-> "Put", key |-> k, value |-> v]
Delete(k) == [type |-> "Delete", key |-> k]
DeletePrefix(p) == [type |-> "DeletePrefix", key_prefix |-> p]

WriteOperation ==
    {Put(k, v) : k \in KeyPool, v \in ValuePool}
        \cup {Delete(k) : k \in KeyPool}
        \cup {DeletePrefix(p) : p \in PrefixPool}

Batch(n) == SeqsUpTo(WriteOperation, n)

----------------------------------------------------------------------------
(* The host side of the view system API *)

HostContainsKey(s, k) == s[k] # None

HostReadValueBytes(s, k) == s[k]

HostReadMultiValuesBytes(s, ks) == [i \in 1..Len(ks) |-> s[ks[i]]]

HostFindKeys(s, p) == SortKeys({k \in DOMAIN s : s[k] # None /\ IsPrefix(p, k)})

HostFindKeyValues(s, p) ==
    LET ks == HostFindKeys(s, p)
    IN  [i \in 1..Len(ks) |-> <<ks[i], s[ks[i]][1]>>]

\* wit::WriteOperation
WitDelete(k) == [type |-> "Delete", arg |-> <<k>>]
WitPut(k, v) == [type |-> "Put", arg |-> <<k, v>>]
WitDeleteprefix(p) == [type |-> "Deleteprefix", arg |-> <<p>>]

HostApplyOp(s, o) ==
    CASE o.type = "Put" -> [s EXCEPT ![o.arg[1]] = Some(o.arg[2])]
      [] o.type = "Delete" -> [s EXCEPT ![o.arg[1]] = None]
      [] o.type = "Deleteprefix" ->
            [k \in DOMAIN s |-> IF IsPrefix(o.arg[1], k) THEN None ELSE s[k]]

RECURSIVE HostWriteBatch(_, _)
HostWriteBatch(s, ops) ==
    IF ops = << >> THEN s
    ELSE HostWriteBatch(HostApplyOp(s, Head(ops)), Tail(ops))

\* what the host answers to a promise when it serves it on store s
HostResult(s, kind, arg) ==
    CASE kind = "ContainsKey" -> HostContainsKey(s, arg)
      [] kind = "ReadValueBytes" -> HostReadValueBytes(s, arg)
      [] kind = "ReadMultiValuesBytes" -> HostReadMultiValuesBytes(s, arg)
      [] kind = "FindKeys" -> HostFindKeys(s, arg)
      [] kind = "FindKeyValues" -> HostFindKeyValues(s, arg)

\* wit::<Kind>::new(arg): a promise the host has not answered yet
NewPromise(kind, arg) == [kind |-> kind, arg |-> arg, result |-> << >>]

\* promise.wait(): the host's answer, produced now if the host has not served it yet
Wait(p, s) == IF p.result # << >> THEN p.result[1] ELSE HostResult(s, p.kind, p.arg)

HostCall(kind, arg) == [kind |-> kind, arg |-> arg]

----------------------------------------------------------------------------
(* Results and call records *)

Ok(x) == [ok |-> TRUE, val |-> <<x>>]
KeyTooLong == [ok |-> FALSE, val |-> << >>]

NoCall == [op |-> "none", arg |-> << >>, calls |-> << >>, susp |-> 0, clean |-> TRUE]
NoRet == [task |-> "none", op |-> "none", arg |-> << >>, result |-> KeyTooLong,
          calls |-> << >>, susp |-> 0]
NoPrev == [task |-> "none", key |-> << >>, result |-> FALSE, n |-> 0, again |-> FALSE]

Return(t, op, arg, result, calls, susp) ==
    [task |-> t, op |-> op, arg |-> arg, result |-> result, calls |-> calls, susp |-> susp]

max_stream_queries == 1

\* ensure!(key.len() <= Self::MAX_KEY_SIZE, ViewError::KeyTooLong)
KeyOk(k) == ByteLen(k) <= MAX_KEY_SIZE

----------------------------------------------------------------------------
(* The adapter *)

\* an early return with ViewError::KeyTooLong: nothing was sent to the host
Fail(t, op, arg) ==
    /\ ret' = Return(t, op, arg, KeyTooLong, << >>, 0)
    /\ prev' = NoPrev
    /\ UNCHANGED <<store, live, pc, cur, promises>>

\* let promise = wit::<Kind>::new(arg); yield_once().await  (up to the suspension)
Issue(t, op, arg, kind, harg) ==
    /\ promises' = [promises EXCEPT ![t] = Append(@, NewPromise(kind, harg))]
    /\ cur' = [cur EXCEPT ![t] = [op |-> op, arg |-> arg, calls |-> <<HostCall(kind, harg)>>,
                                  susp |-> 1, clean |-> TRUE]]
    /\ pc' = [pc EXCEPT ![t] = "yielded"]
    /\ ret' = NoRet
    /\ UNCHANGED <<store, live, prev>>

\* the resumption reading the promise and leaving it in place for a later call
Finish_keep(t, op) ==
    /\ pc[t] = "yielded"
    /\ cur[t].op = op
    /\ LET n == Len(promises[t])
           r == Wait(promises[t][n], store)
       IN  /\ ret' = Return(t, op, cur[t].arg, Ok(r), cur[t].calls, cur[t].susp)
           /\ prev' = NoPrev
    /\ pc' = [pc EXCEPT ![t] = "idle"]
    /\ cur' = [cur EXCEPT ![t] = NoCall]
    /\ UNCHANGED <<store, live, promises>>

\* the resumption after yield_once().await: Ok(promise.wait())
Finish(t, op) ==
    /\ pc[t] = "yielded"
    /\ cur[t].op = op
    /\ LET n == Len(promises[t])
           r == Wait(promises[t][n], store)
       IN  /\ promises' = [promises EXCEPT ![t] = SubSeq(@, 1, n - 1)]
           /\ ret' = Return(t, op, cur[t].arg, Ok(r), cur[t].calls, cur[t].susp)
           /\ prev' = IF op = "contains_key" /\ cur[t].clean
                      THEN [task |-> t, key |-> cur[t].arg, result |-> r,
                            n |-> Len(cur[t].calls),
                            again |-> prev.task = t /\ prev.key = cur[t].arg]
                      ELSE NoPrev
    /\ pc' = [pc EXCEPT ![t] = "idle"]
    /\ cur' = [cur EXCEPT ![t] = NoCall]
    /\ UNCHANGED <<store, live>>

\* contains_key with `<` in its ensure!
contains_key_strict(t, key) ==
    /\ pc[t] = "idle"
    /\ IF ~(ByteLen(key) < MAX_KEY_SIZE) THEN Fail(t, "contains_key", key)
       ELSE Issue(t, "contains_key", key, "ContainsKey", key)

\* contains_key answering from the preceding call for the same key
contains_key_cached(t, key) ==
    /\ pc[t] = "idle"
    /\ IF ~KeyOk(key) THEN Fail(t, "contains_key", key)
       ELSE IF prev.task = t /\ prev.key = key
       THEN /\ ret' = Return(t, "contains_key", key, Ok(prev.result), << >>, 0)
            /\ prev' = [prev EXCEPT !.again = TRUE]
            /\ UNCHANGED <<store, live, pc, cur, promises>>
       ELSE Issue(t, "contains_key", key, "ContainsKey", key)

contains_key(t, key) ==
    /\ pc[t] = "idle"
    /\ IF ~KeyOk(key) THEN Fail(t, "contains_key", key)
       ELSE Issue(t, "contains_key", key, "ContainsKey", key)

contains_key_resume(t) == Finish(t, "contains_key")

\* read_multi_values_bytes with its ensure! on the first key only
read_multi_values_bytes_first_only(t, keys) ==
    /\ pc[t] = "idle"
    /\ IF keys # << >> /\ ~KeyOk(keys[1]) THEN Fail(t, "read_multi_values_bytes", keys)
       ELSE LET slices == [i \in 1..Len(keys) |-> keys[i]]
            IN  Issue(t, "read_multi_values_bytes", keys, "ReadMultiValuesBytes", slices)

\* read_multi_values_bytes collecting the keys in reverse
read_multi_values_bytes_reversed(t, keys) ==
    /\ pc[t] = "idle"
    /\ IF \E i \in 1..Len(keys) : ~KeyOk(keys[i]) THEN Fail(t, "read_multi_values_bytes", keys)
       ELSE Issue(t, "read_multi_values_bytes", keys, "ReadMultiValuesBytes",
                  [i \in 1..Len(keys) |-> keys[Len(keys) + 1 - i]])

read_multi_values_bytes(t, keys) ==
    /\ pc[t] = "idle"
    /\ IF \E i \in 1..Len(keys) : ~KeyOk(keys[i]) THEN Fail(t, "read_multi_values_bytes", keys)
       ELSE LET slices == [i \in 1..Len(keys) |-> keys[i]]
            IN  Issue(t, "read_multi_values_bytes", keys, "ReadMultiValuesBytes", slices)

read_multi_values_bytes_resume(t) == Finish(t, "read_multi_values_bytes")

\* read_value_bytes returning without awaiting its promise
read_value_bytes_detached(t, key) ==
    /\ pc[t] = "idle"
    /\ IF ~KeyOk(key) THEN Fail(t, "read_value_bytes", key)
       ELSE /\ promises' = [promises EXCEPT ![t] =
                                Append(@, NewPromise("ReadValueBytes", key))]
            /\ ret' = Return(t, "read_value_bytes", key, Ok(None),
                             <<HostCall("ReadValueBytes", key)>>, 0)
            /\ prev' = NoPrev
            /\ UNCHANGED <<store, live, pc, cur>>

read_value_bytes(t, key) ==
    /\ pc[t] = "idle"
    /\ IF ~KeyOk(key) THEN Fail(t, "read_value_bytes", key)
       ELSE Issue(t, "read_value_bytes", key, "ReadValueBytes", key)

read_value_bytes_resume(t) == Finish(t, "read_value_bytes")

\* find_keys_by_prefix_load creating a second promise
find_keys_by_prefix_load_twice(t, key_prefix) ==
    /\ promises' = [promises EXCEPT ![t] = @ \o <<NewPromise("FindKeys", key_prefix),
                                                   NewPromise("FindKeys", key_prefix)>>]
    /\ cur' = [cur EXCEPT ![t] = [op |-> "find_keys_by_prefix", arg |-> key_prefix,
                                  calls |-> <<HostCall("FindKeys", key_prefix),
                                              HostCall("FindKeys", key_prefix)>>,
                                  susp |-> 1, clean |-> TRUE]]
    /\ pc' = [pc EXCEPT ![t] = "yielded"]
    /\ ret' = NoRet
    /\ UNCHANGED <<store, live, prev>>

find_keys_by_prefix_load(t, key_prefix) ==
    Issue(t, "find_keys_by_prefix", key_prefix, "FindKeys", key_prefix)

\* find_keys_by_prefix without its ensure!
find_keys_by_prefix_unchecked(t, key_prefix) ==
    /\ pc[t] = "idle"
    /\ find_keys_by_prefix_load(t, key_prefix)

find_keys_by_prefix(t, key_prefix) ==
    /\ pc[t] = "idle"
    /\ IF ~KeyOk(key_prefix) THEN Fail(t, "find_keys_by_prefix", key_prefix)
       ELSE find_keys_by_prefix_load(t, key_prefix)

find_keys_by_prefix_resume(t) == Finish(t, "find_keys_by_prefix")

\* find_key_values_by_prefix_load creating the promise of find_keys_by_prefix_load
find_key_values_by_prefix_load_keys(t, key_prefix) ==
    Issue(t, "find_key_values_by_prefix", key_prefix, "FindKeys", key_prefix)

find_key_values_by_prefix_load(t, key_prefix) ==
    Issue(t, "find_key_values_by_prefix", key_prefix, "FindKeyValues", key_prefix)

find_key_values_by_prefix(t, key_prefix) ==
    /\ pc[t] = "idle"
    /\ IF ~KeyOk(key_prefix) THEN Fail(t, "find_key_values_by_prefix", key_prefix)
       ELSE find_key_values_by_prefix_load(t, key_prefix)

find_key_values_by_prefix_resume(t) == Finish(t, "find_key_values_by_prefix")

\* the match of write_batch holding the value of a Put to the key limit
TranslateOp_value_checked(o) ==
    CASE o.type = "Delete" ->
            IF ~KeyOk(o.key) THEN KeyTooLong ELSE Ok(WitDelete(o.key))
      [] o.type = "Put" ->
            IF ~KeyOk(o.key) \/ ~KeyOk(o.value) THEN KeyTooLong
            ELSE Ok(WitPut(o.key, o.value))
      [] o.type = "DeletePrefix" ->
            IF ~KeyOk(o.key_prefix) THEN KeyTooLong ELSE Ok(WitDeleteprefix(o.key_prefix))

\* the match of write_batch pushing Deleteprefix in its Delete arm
TranslateOp_delete_as_prefix(o) ==
    CASE o.type = "Delete" ->
            IF ~KeyOk(o.key) THEN KeyTooLong ELSE Ok(WitDeleteprefix(o.key))
      [] o.type = "Put" ->
            IF ~KeyOk(o.key) THEN KeyTooLong ELSE Ok(WitPut(o.key, o.value))
      [] o.type = "DeletePrefix" ->
            IF ~KeyOk(o.key_prefix) THEN KeyTooLong ELSE Ok(WitDeleteprefix(o.key_prefix))

\* the match of write_batch with no ensure! in its DeletePrefix arm
TranslateOp_prefix_unchecked(o) ==
    CASE o.type = "Delete" ->
            IF ~KeyOk(o.key) THEN KeyTooLong ELSE Ok(WitDelete(o.key))
      [] o.type = "Put" ->
            IF ~KeyOk(o.key) THEN KeyTooLong ELSE Ok(WitPut(o.key, o.value))
      [] o.type = "DeletePrefix" -> Ok(WitDeleteprefix(o.key_prefix))

\* one arm of the match in write_batch: the ensure!, then the operation pushed
TranslateOp(o) ==
    CASE o.type = "Delete" ->
            IF ~KeyOk(o.key) THEN KeyTooLong ELSE Ok(WitDelete(o.key))
      [] o.type = "Put" ->
            IF ~KeyOk(o.key) THEN KeyTooLong ELSE Ok(WitPut(o.key, o.value))
      [] o.type = "DeletePrefix" ->
            IF ~KeyOk(o.key_prefix) THEN KeyTooLong ELSE Ok(WitDeleteprefix(o.key_prefix))

\* the loop of write_batch inserting each operation at the front of `operations`
RECURSIVE Translate_prepend(_, _)
Translate_prepend(rest, operations) ==
    IF rest = << >> THEN Ok(operations)
    ELSE LET r == TranslateOp(Head(rest))
         IN  IF ~r.ok THEN KeyTooLong
             ELSE Translate_prepend(Tail(rest), <<r.val[1]>> \o operations)

\* the loop of write_batch over batch.operations, from `operations` as built so far
RECURSIVE Translate(_, _)
Translate(rest, operations) ==
    IF rest = << >> THEN Ok(operations)
    ELSE LET r == TranslateOp(Head(rest))
         IN  IF ~r.ok THEN KeyTooLong
             ELSE Translate(Tail(rest), Append(operations, r.val[1]))

\* write_batch holding base_key to the key limit
write_batch_base_checked(t, batch, base_key) ==
    /\ pc[t] = "idle"
    /\ LET arg == [batch |-> batch, base_key |-> base_key]
           r == Translate(batch, << >>)
       IN  IF ~KeyOk(base_key) \/ ~r.ok THEN Fail(t, "write_batch", arg)
           ELSE LET operations == r.val[1]
                    after == HostWriteBatch(store, operations)
                IN  /\ store' = after
                    /\ ret' = Return(t, "write_batch", arg, Ok(<< >>),
                                     <<HostCall("WriteBatch", operations)>>, 0)
                    /\ cur' = [u \in Tasks |->
                                 IF after # store THEN [cur[u] EXCEPT !.clean = FALSE]
                                 ELSE cur[u]]
                    /\ prev' = NoPrev
                    /\ UNCHANGED <<live, pc, promises>>

\* write_batch returning early on an empty batch
write_batch_skip_empty(t, batch, base_key) ==
    /\ pc[t] = "idle"
    /\ LET arg == [batch |-> batch, base_key |-> base_key]
           r == Translate(batch, << >>)
       IN  IF ~r.ok THEN Fail(t, "write_batch", arg)
           ELSE LET operations == r.val[1]
                    after == HostWriteBatch(store, operations)
                IN  /\ store' = after
                    /\ ret' = Return(t, "write_batch", arg, Ok(<< >>),
                                     IF batch = << >> THEN << >>
                                     ELSE <<HostCall("WriteBatch", operations)>>, 0)
                    /\ cur' = [u \in Tasks |->
                                 IF after # store THEN [cur[u] EXCEPT !.clean = FALSE]
                                 ELSE cur[u]]
                    /\ prev' = NoPrev
                    /\ UNCHANGED <<live, pc, promises>>

\* write_batch with a yield_once().await after its host call
write_batch_yielding(t, batch, base_key) ==
    /\ pc[t] = "idle"
    /\ LET arg == [batch |-> batch, base_key |-> base_key]
           r == Translate(batch, << >>)
       IN  IF ~r.ok THEN Fail(t, "write_batch", arg)
           ELSE LET operations == r.val[1]
                    after == HostWriteBatch(store, operations)
                IN  /\ store' = after
                    /\ ret' = NoRet
                    /\ cur' = [u \in Tasks |->
                                 IF u = t
                                 THEN [op |-> "write_batch", arg |-> arg,
                                       calls |-> <<HostCall("WriteBatch", operations)>>,
                                       susp |-> 1, clean |-> TRUE]
                                 ELSE IF after # store THEN [cur[u] EXCEPT !.clean = FALSE]
                                 ELSE cur[u]]
                    /\ pc' = [pc EXCEPT ![t] = "yielded"]
                    /\ prev' = NoPrev
                    /\ UNCHANGED <<live, promises>>

write_batch(t, batch, base_key) ==
    /\ pc[t] = "idle"
    /\ LET arg == [batch |-> batch, base_key |-> base_key]
           r == Translate(batch, << >>)
       IN  IF ~r.ok THEN Fail(t, "write_batch", arg)
           ELSE LET operations == r.val[1]
                    after == HostWriteBatch(store, operations)
                IN  /\ store' = after
                    /\ ret' = Return(t, "write_batch", arg, Ok(<< >>),
                                     <<HostCall("WriteBatch", operations)>>, 0)
                    /\ cur' = [u \in Tasks |->
                                 IF after # store THEN [cur[u] EXCEPT !.clean = FALSE]
                                 ELSE cur[u]]
                    /\ prev' = NoPrev
                    /\ UNCHANGED <<live, pc, promises>>

\* clear_journal deleting every key of the store through the host
clear_journal_wiping(t, base_key) ==
    /\ pc[t] = "idle"
    /\ store' = HostWriteBatch(store, <<WitDeleteprefix(<< >>)>>)
    /\ ret' = Return(t, "clear_journal", base_key, Ok(<< >>),
                     <<HostCall("WriteBatch", <<WitDeleteprefix(<< >>)>>)>>, 0)
    /\ prev' = NoPrev
    /\ UNCHANGED <<live, pc, cur, promises>>

\* clear_journal holding base_key to the key limit
clear_journal_checked(t, base_key) ==
    /\ pc[t] = "idle"
    /\ IF ~KeyOk(base_key) THEN Fail(t, "clear_journal", base_key)
       ELSE /\ ret' = Return(t, "clear_journal", base_key, Ok(<< >>), << >>, 0)
            /\ prev' = NoPrev
            /\ UNCHANGED <<store, live, pc, cur, promises>>

clear_journal(t, base_key) ==
    /\ pc[t] = "idle"
    /\ ret' = Return(t, "clear_journal", base_key, Ok(<< >>), << >>, 0)
    /\ prev' = NoPrev
    /\ UNCHANGED <<store, live, pc, cur, promises>>

\* the host answers the pending promise of a suspended task
HostServe(t) ==
    /\ pc[t] = "yielded"
    /\ LET n == Len(promises[t])
           p == promises[t][n]
       IN  /\ n > 0
           /\ p.result = << >>
           /\ promises' = [promises EXCEPT ![t][n].result =
                               <<HostResult(store, p.kind, p.arg)>>]
    /\ ret' = NoRet
    /\ UNCHANGED <<store, live, pc, cur, prev>>

----------------------------------------------------------------------------
(* Specifications *)

BatchLen == IF Cardinality(live) = 1 THEN MaxBatchLen ELSE ConcBatchLen

KeysLen == IF Cardinality(live) = 1 THEN MaxKeys ELSE ConcKeys

InitWith(callers) ==
    /\ store = [k \in KeyPool |-> None]
    /\ live = callers
    /\ pc = [t \in Tasks |-> "idle"]
    /\ cur = [t \in Tasks |-> NoCall]
    /\ promises = [t \in Tasks |-> << >>]
    /\ prev = NoPrev
    /\ ret = NoRet

Init == InitWith({"t1"})

ConcInit == InitWith(Tasks)

\* the caller goes on with the value the adapter returned to it
take_result ==
    /\ ret.op # "none"
    /\ ret' = NoRet
    /\ UNCHANGED <<store, live, pc, cur, promises, prev>>

\* cooperative scheduling: while a call has just returned, its caller runs on
\* before any other task or the host takes a step
Runnable == IF ret.op = "none" THEN live ELSE {}

Next ==
    \/ \E t \in Runnable, key \in KeyPool : contains_key(t, key)
    \/ \E t \in Runnable : contains_key_resume(t)
    \/ \E t \in Runnable, keys \in SeqsUpTo(KeyPool, KeysLen) :
            read_multi_values_bytes(t, keys)
    \/ \E t \in Runnable : read_multi_values_bytes_resume(t)
    \/ \E t \in Runnable, key \in KeyPool : read_value_bytes(t, key)
    \/ \E t \in Runnable : read_value_bytes_resume(t)
    \/ \E t \in Runnable, key_prefix \in PrefixPool : find_keys_by_prefix(t, key_prefix)
    \/ \E t \in Runnable : find_keys_by_prefix_resume(t)
    \/ \E t \in Runnable, key_prefix \in PrefixPool :
            find_key_values_by_prefix(t, key_prefix)
    \/ \E t \in Runnable : find_key_values_by_prefix_resume(t)
    \/ \E t \in Runnable, batch \in Batch(BatchLen), base_key \in BaseKeyPool :
            write_batch(t, batch, base_key)
    \/ \E t \in Runnable, base_key \in BaseKeyPool : clear_journal(t, base_key)
    \/ \E t \in Runnable : HostServe(t)
    \/ take_result

Spec == Init /\ [][Next]_vars

ConcSpec == ConcInit /\ [][Next]_vars

----------------------------------------------------------------------------
(* Properties *)

TooLong(k) == ByteLen(k) > MAX_KEY_SIZE

OpKey(o) == IF o.type = "DeletePrefix" THEN o.key_prefix ELSE o.key

AnyTooLong(ks) == \E i \in 1..Len(ks) : TooLong(ks[i])

BatchTooLong(batch) == \E i \in 1..Len(batch) : TooLong(OpKey(batch[i]))

\* the call that has just returned was given a key or key prefix over the limit
OversizedCall(r) ==
    CASE r.op \in {"contains_key", "read_value_bytes", "find_keys_by_prefix",
                   "find_key_values_by_prefix"} -> TooLong(r.arg)
      [] r.op = "read_multi_values_bytes" -> AnyTooLong(r.arg)
      [] r.op = "write_batch" -> BatchTooLong(r.arg.batch)
      [] OTHER -> FALSE

KindOf(op) ==
    CASE op = "contains_key" -> "ContainsKey"
      [] op = "read_value_bytes" -> "ReadValueBytes"
      [] op = "read_multi_values_bytes" -> "ReadMultiValuesBytes"
      [] op = "find_keys_by_prefix" -> "FindKeys"
      [] op = "find_key_values_by_prefix" -> "FindKeyValues"
      [] OTHER -> "none"

\* C1: a read or a write_batch given a key or key prefix longer than 900 bytes
\* returns KeyTooLong, having issued no host call and without having suspended.
C1_OversizedRejected ==
    (ret.op # "none" /\ OversizedCall(ret))
        => (~ret.result.ok /\ ret.calls = << >> /\ ret.susp = 0)

C1_Witness ==
    /\ ret.op = "read_multi_values_bytes"
    /\ ret.arg = <<K1, KBig>>
    /\ ~ret.result.ok

\* C2: a batch holding an oversized key or prefix at any position is rejected
\* with KeyTooLong, the host write_batch primitive is not invoked and the host
\* store stays as it was: no prefix of the batch reaches the host.
C2_BatchRejectedWhole ==
    [][(ret'.op = "write_batch" /\ BatchTooLong(ret'.arg.batch))
          => /\ ~ret'.result.ok
             /\ \A i \in 1..Len(ret'.calls) : ret'.calls[i].kind # "WriteBatch"
             /\ store' = store]_vars

C2_Witness ==
    /\ ret.op = "write_batch"
    /\ ret.arg.batch = <<Put(K1, Run(7, 1)), DeletePrefix(KBig)>>
    /\ ~ret.result.ok
    /\ store[K1] = None

\* batch operation o and host operation h are the same variant with the same payload
SameOperation(o, h) ==
    CASE o.type = "Put" -> h.type = "Put" /\ h.arg = <<o.key, o.value>>
      [] o.type = "Delete" -> h.type = "Delete" /\ h.arg = <<o.key>>
      [] o.type = "DeletePrefix" -> h.type = "Deleteprefix" /\ h.arg = <<o.key_prefix>>

\* C3: for a batch whose keys and prefixes are all within 900 bytes, the list
\* given to the host write_batch primitive has the length of the batch and at
\* every index the same variant and payload as the batch.
C3_TranslationPreservesOrder ==
    (ret.op = "write_batch" /\ ~BatchTooLong(ret.arg.batch))
        => /\ ret.calls # << >>
           /\ LET operations == ret.calls[1].arg
              IN  /\ Len(operations) = Len(ret.arg.batch)
                  /\ \A i \in 1..Len(operations) :
                        SameOperation(ret.arg.batch[i], operations[i])

C3_Witness ==
    /\ ret.op = "write_batch"
    /\ ret.arg.batch = <<Put(K1, Run(7, 1)), Delete(K1)>>
    /\ ret.calls = <<HostCall("WriteBatch", <<WitPut(K1, Run(7, 1)), WitDelete(K1)>>)>>

\* the host's answer to promise p, as promise.wait() hands it over on store s
Answer(p, s) == IF p.result # << >> THEN p.result[1] ELSE HostResult(s, p.kind, p.arg)

\* C4: contains_key(k) and read_value_bytes(k) with len(k) <= 900 issue exactly
\* one host call of their kind with argument k, suspend exactly once, and return
\* what the host answered to that promise.
C4_PointReadOneCall ==
    [][(ret'.op \in {"contains_key", "read_value_bytes"} /\ ~TooLong(ret'.arg))
          => /\ ret'.calls = <<HostCall(KindOf(ret'.op), ret'.arg)>>
             /\ ret'.susp = 1
             /\ ret'.result.ok
             /\ LET own == promises[ret'.task]
                IN  /\ Len(own) = 1
                    /\ own[1].kind = KindOf(ret'.op)
                    /\ own[1].arg = ret'.arg
                    /\ ret'.result.val = <<Answer(own[1], store)>>]_vars

C4_Witness ==
    /\ ret.op = "contains_key"
    /\ ret.arg = KMax
    /\ ret.result.ok
    /\ ret.result.val = <<TRUE>>
    /\ ret.susp = 1

\* C5: read_multi_values_bytes on keys all within 900 bytes returns one entry
\* per key, in the order of the keys: the stored value of the key, or None when
\* the key is not in the store, and no error.
C5_MultiReadInOrder ==
    (ret.op = "read_multi_values_bytes" /\ ~AnyTooLong(ret.arg))
        => /\ ret.result.ok
           /\ Len(ret.result.val[1]) = Len(ret.arg)
           /\ \A i \in 1..Len(ret.arg) : ret.result.val[1][i] = store[ret.arg[i]]

C5_Witness ==
    /\ ret.op = "read_multi_values_bytes"
    /\ ret.arg = <<KMax, K1>>
    /\ ret.result.ok
    /\ ret.result.val[1] = <<None, Some(VBig)>>

\* C6: write_batch on a batch whose keys and prefixes are all within 900 bytes,
\* the empty batch included, issues exactly one host call, a WriteBatch with one
\* host operation per batch operation, and returns success.
C6_OneWriteBatchCall ==
    (ret.op = "write_batch" /\ ~BatchTooLong(ret.arg.batch))
        => /\ ret.result.ok
           /\ Len(ret.calls) = 1
           /\ ret.calls[1].kind = "WriteBatch"
           /\ Len(ret.calls[1].arg) = Len(ret.arg.batch)

C6_Witness ==
    /\ ret.op = "write_batch"
    /\ ret.arg.batch = << >>
    /\ ret.result.ok
    /\ ret.calls = <<HostCall("WriteBatch", << >>)>>

\* C7 as claimed: every call that issued a host call, write_batch included,
\* suspended exactly once.
C7_Claimed == (ret.op # "none" /\ ret.calls # << >>) => ret.susp = 1

\* C7: a read that issued its host call suspended exactly once; write_batch
\* issues its WriteBatch host call and returns without suspending at all.
C7_ReadsSuspendOnceWriteNever ==
    /\ (ret.op # "none" /\ ret.calls # << >>)
          => ret.susp = (IF ret.op = "write_batch" THEN 0 ELSE 1)
    /\ \A t \in Tasks : pc[t] = "yielded" =>
          (cur[t].op \notin {"write_batch", "clear_journal"} /\ cur[t].susp = 1)

C7_Witness ==
    /\ ret.op = "write_batch"
    /\ ret.result.ok
    /\ Len(ret.arg.batch) = 2
    /\ Len(ret.calls) = 1
    /\ ret.susp = 0

\* scan promises of task t created and not yet waited on
ScansOutstanding(t) ==
    Cardinality({i \in 1..Len(promises[t]) :
                    promises[t][i].kind \in {"FindKeys", "FindKeyValues"}})

RECURSIVE SumOver(_, _)
SumOver(f, S) ==
    IF S = {} THEN 0
    ELSE LET x == CHOOSE y \in S : TRUE IN f[x] + SumOver(f, S \ {x})

AllScansOutstanding == SumOver([t \in Tasks |-> ScansOutstanding(t)], Tasks)

\* C8 as claimed: at most one scan host call is outstanding at any time.
C8_Claimed == AllScansOutstanding <= 1

\* C8: the adapter declares a limit of one scan and each task has at most that
\* many scan promises outstanding; the adapter does not serialise the scans of
\* different tasks, so as many scans as there are calling tasks can be
\* outstanding at once.
C8_OneScanPerTask ==
    /\ \A t \in Tasks : ScansOutstanding(t) <= max_stream_queries
    /\ AllScansOutstanding <= Cardinality(live)

C8_Witness ==
    /\ ScansOutstanding("t1") = 1
    /\ ScansOutstanding("t2") = 1
    /\ promises["t1"][1].result = << >>
    /\ promises["t2"][1].result = << >>

\* C9: clear_journal returns success for every base_key, in any state, without a
\* host call or a suspension, and leaves the host store and every promise as
\* they were.
C9_ClearJournalNoOp ==
    [][ret'.op = "clear_journal"
          => /\ ret'.result.ok
             /\ ret'.calls = << >>
             /\ ret'.susp = 0
             /\ store' = store
             /\ promises' = promises
             /\ pc' = pc]_vars

C9_Witness ==
    /\ ret.op = "clear_journal"
    /\ ret.arg = KBig
    /\ ret.result.ok
    /\ store[K1] # None

\* C10: when contains_key(k) follows a contains_key(k) of the same caller and
\* the host store has not changed since the first was issued, the two calls
\* issue one host call each, two in all, and return the same boolean.
C10_ContainsKeyTwice ==
    [][(/\ ret'.op = "contains_key"
        /\ ret'.result.ok
        /\ prev.task = ret'.task
        /\ prev.key = ret'.arg
        /\ cur[ret'.task].clean)
          => /\ prev.n + Len(ret'.calls) = 2
             /\ ret'.calls = <<HostCall("ContainsKey", ret'.arg)>>
             /\ ret'.result.val = <<prev.result>>]_vars

C10_Witness ==
    /\ ret.op = "contains_key"
    /\ ret.arg = K1
    /\ ret.result.ok
    /\ ret.result.val = <<TRUE>>
    /\ prev.again
    /\ prev.n = 1

\* C11: read_multi_values_bytes on a list that mixes keys within the limit with
\* an oversized key, at any position, returns KeyTooLong with no result for any
\* key, and no ReadMultiValuesBytes promise has been created for it.
C11_MultiReadAllOrNothing ==
    (/\ ret.op = "read_multi_values_bytes"
     /\ \E i \in 1..Len(ret.arg) : TooLong(ret.arg[i])
     /\ \E i \in 1..Len(ret.arg) : ~TooLong(ret.arg[i]))
        => /\ ~ret.result.ok
           /\ ret.result.val = << >>
           /\ \A i \in 1..Len(ret.calls) : ret.calls[i].kind # "ReadMultiValuesBytes"
           /\ promises[ret.task] = << >>
           /\ pc[ret.task] = "idle"

C11_Witness ==
    /\ ret.op = "read_multi_values_bytes"
    /\ ret.arg = <<KMax, KBig>>
    /\ ~ret.result.ok
    /\ store[KMax] # None

ReadOps == {"contains_key", "read_value_bytes", "read_multi_values_bytes",
            "find_keys_by_prefix", "find_key_values_by_prefix"}

\* C12: in every read the promise is created after validation and right before
\* the one suspension, it is the only promise of the task while the task is
\* suspended, it is read after the resumption, when the call returns, and it is
\* gone once the call has returned, so that no later call finds it.
C12_PromiseLifecycle ==
    /\ \A t \in Tasks :
          /\ pc[t] = "yielded" =>
                /\ cur[t].op \in ReadOps
                /\ ~OversizedCall(cur[t])
                /\ cur[t].susp = 1
                /\ Len(promises[t]) = 1
                /\ promises[t][1].kind = KindOf(cur[t].op)
                /\ cur[t].calls = <<HostCall(promises[t][1].kind, promises[t][1].arg)>>
          /\ pc[t] = "idle" => (promises[t] = << >> /\ cur[t].op = "none")
    /\ (ret.op \in ReadOps /\ ret.result.ok) =>
          /\ ret.susp = 1
          /\ Len(ret.calls) = 1
          /\ ~OversizedCall(ret)
          /\ pc[ret.task] = "idle"
          /\ promises[ret.task] = << >>

C12_Witness ==
    /\ ret.op = "read_value_bytes"
    /\ ret.task = "t2"
    /\ ret.result.ok
    /\ pc["t1"] = "yielded"
    /\ cur["t1"].op = "find_key_values_by_prefix"
    /\ promises["t1"][1].result # << >>
    /\ promises["t2"] = << >>

\* C13: find_keys_by_prefix and find_key_values_by_prefix with a prefix within
\* 900 bytes, and read_multi_values_bytes with keys all within 900 bytes (the
\* empty list included), issue exactly one host call of their kind with the
\* argument given, suspend exactly once and return what the host answered.
C13_ScanAndMultiReadOneCall ==
    [][(/\ ret'.op \in {"find_keys_by_prefix", "find_key_values_by_prefix",
                        "read_multi_values_bytes"}
        /\ ~OversizedCall(ret'))
          => /\ ret'.calls = <<HostCall(KindOf(ret'.op), ret'.arg)>>
             /\ ret'.susp = 1
             /\ ret'.result.ok
             /\ LET own == promises[ret'.task]
                IN  /\ Len(own) = 1
                    /\ own[1].kind = KindOf(ret'.op)
                    /\ own[1].arg = ret'.arg
                    /\ ret'.result.val = <<Answer(own[1], store)>>]_vars

C13_Witness ==
    /\ ret.op = "find_key_values_by_prefix"
    /\ ret.arg = K1
    /\ ret.result.ok
    /\ Len(ret.result.val[1]) = 2
    /\ ret.result.val[1][1][1] = K1
    /\ ret.result.val[1][2][1] = KMax
    /\ ret.susp = 1

\* batch operation o touches key k
Touches(o, k) ==
    CASE o.type = "Put" -> o.key = k
      [] o.type = "Delete" -> o.key = k
      [] o.type = "DeletePrefix" -> IsPrefix(o.key_prefix, k)

\* what key k holds after the batch, given what it held before: the last
\* operation of the batch that touches k decides
Outcome(batch, k, before) ==
    LET touching == {i \in 1..Len(batch) : Touches(batch[i], k)}
    IN  IF touching = {} THEN before
        ELSE LET last == CHOOSE i \in touching : \A j \in touching : j <= i
             IN  IF batch[last].type = "Put" THEN Some(batch[last].value) ELSE None

\* C14: after a successful write_batch every key holds what the last operation
\* of the batch touching it left (a Put its value, a Delete or a DeletePrefix
\* of one of its prefixes nothing), and what it held before when no operation
\* touches it: the batch takes effect in input order.
C14_BatchAppliedInOrder ==
    [][(ret'.op = "write_batch" /\ ret'.result.ok)
          => \A k \in KeyPool : store'[k] = Outcome(ret'.arg.batch, k, store[k])]_vars

C14_Witness ==
    /\ ret.op = "write_batch"
    /\ ret.arg.batch = <<Delete(K1), Put(K1, Run(7, 1))>>
    /\ ret.result.ok
    /\ store[K1] = Some(Run(7, 1))
    /\ store[KMax] # None

\* task t issues a host call in this step
IssuesHostCall(t) ==
    \/ cur[t].calls = << >> /\ cur'[t].calls # << >>
    \/ Len(promises'[t]) > Len(promises[t])
    \/ ret'.op # "none" /\ ret'.task = t /\ ret'.calls # << >> /\ pc[t] = "idle"

\* C15: a task issues a host call only when its preceding operation is over:
\* it is not suspended, no promise of it is left, and no call of it is in
\* flight.  While it is suspended in an operation, the steps of the other
\* tasks and of the host leave that operation and its one host call as they
\* are, so the task's host calls follow in the order of its operations.
C15_ProgramOrder ==
    [][\A t \in Tasks :
          /\ IssuesHostCall(t) =>
                (pc[t] = "idle" /\ promises[t] = << >> /\ cur[t].op = "none")
          /\ (pc[t] = "yielded" /\ pc'[t] = "yielded") =>
                /\ cur'[t].op = cur[t].op
                /\ cur'[t].calls = cur[t].calls
                /\ Len(promises'[t]) = Len(promises[t])
          /\ Len(cur'[t].calls) <= 1]_vars

C15_Witness ==
    /\ ret.op = "contains_key"
    /\ ret.task = "t1"
    /\ prev.task = "t1"
    /\ prev.again
    /\ pc["t2"] = "yielded"
    /\ cur["t2"].op = "find_keys_by_prefix"
    /\ promises["t1"] = << >>

\* C16: write_batch succeeds exactly when no key or prefix of the batch is over
\* 900 bytes, whatever the lengths of the values, and every Put reaches the
\* host with its value as given.
C16_ValueSizeIgnored ==
    ret.op = "write_batch"
        => /\ ret.result.ok = ~BatchTooLong(ret.arg.batch)
           /\ ret.result.ok =>
                \A i \in 1..Len(ret.arg.batch) :
                    ret.arg.batch[i].type = "Put" =>
                        /\ ret.calls[1].arg[i].type = "Put"
                        /\ ret.calls[1].arg[i].arg[2] = ret.arg.batch[i].value

C16_Witness ==
    /\ ret.op = "write_batch"
    /\ ret.arg.batch = <<Put(KMax, VBig)>>
    /\ ret.result.ok
    /\ ByteLen(ret.calls[1].arg[1].arg[2]) > MAX_KEY_SIZE
    /\ store[KMax] = Some(VBig)

\* call r returned what its arguments and the host store s alone determine
DeterminedBy(r, s) ==
    CASE r.op \in ReadOps ->
            IF OversizedCall(r) THEN ~r.result.ok
            ELSE r.result.ok /\ r.result.val = <<HostResult(s, KindOf(r.op), r.arg)>>
      [] r.op = "write_batch" -> r.result.ok = ~BatchTooLong(r.arg.batch)
      [] r.op = "clear_journal" -> r.result.ok
      [] OTHER -> TRUE

\* C17: the host store changes only in a step in which write_batch returns
\* success; a read, a clear_journal and any call that returns KeyTooLong leave
\* it as it was and issue no WriteBatch host call; and what a call returns is
\* determined by its arguments and the host store, nothing being kept by the
\* adapter from the calls before.
C17_StoreChangesOnlyByWriteBatch ==
    [][/\ store' # store => (ret'.op = "write_batch" /\ ret'.result.ok)
       /\ (ret'.op # "none" /\ ~(ret'.op = "write_batch" /\ ret'.result.ok))
             => /\ store' = store
                /\ \A i \in 1..Len(ret'.calls) : ret'.calls[i].kind # "WriteBatch"
       /\ DeterminedBy(ret', store)]_vars

C17_Witness ==
    /\ ret.op = "read_value_bytes"
    /\ ret.arg = KBig
    /\ ~ret.result.ok
    /\ store[K1] = Some(VBig)
    /\ store[KMax] = Some(Run(7, 1))

\* the host operation for batch operation o with its key or prefix as given
PlainOp(o) ==
    CASE o.type = "Put" -> WitPut(o.key, o.value)
      [] o.type = "Delete" -> WitDelete(o.key)
      [] o.type = "DeletePrefix" -> WitDeleteprefix(o.key_prefix)

\* what write_batch hands to the host for a batch, whatever the base_key
CallsFor(batch) ==
    IF BatchTooLong(batch) THEN << >>
    ELSE <<HostCall("WriteBatch", [i \in 1..Len(batch) |-> PlainOp(batch[i])])>>

\* C18: the result of write_batch and the list it hands to the host are given
\* by the batch alone: they are the same for every base_key, of any length, and
\* the keys reach the host without the base_key; clear_journal succeeds with no
\* host call for every base_key.
C18_BaseKeyIgnored ==
    /\ ret.op = "write_batch"
          => /\ ret.result.ok = ~BatchTooLong(ret.arg.batch)
             /\ ret.calls = CallsFor(ret.arg.batch)
    /\ ret.op = "clear_journal" => (ret.result.ok /\ ret.calls = << >>)

C18_Witness ==
    /\ ret.op = "write_batch"
    /\ ret.arg.base_key = KBig
    /\ ret.arg.batch = <<Put(KMax, Run(7, 1)), DeletePrefix(K1)>>
    /\ ret.result.ok
    /\ ret.calls[1].arg[1].arg[1] = KMax

====
